---- MODULE Spec2Model ----
(***************************************************************************)
(* Model of the MV3 service worker of the SOOP/CHZZK live notifier         *)
(* (src/extension/options.js, lines 184-758): the poll cycle pollAll, the  *)
(* transition detector, the cooldown gate, notify with its icon fallback,  *)
(* and the notifMap read-modify-write operations behind withNotifMapLock.  *)
(*                                                                         *)
(* JavaScript runs each handler to its next await without interruption, so *)
(* one action is one such run: from the settling of the awaited promise to *)
(* the next await.  chrome.storage.local serves its requests in the order  *)
(* they are issued, so a get or set takes effect in the step issuing it.   *)
(*                                                                         *)
(* Titles and URLs are carried only through the signature and the channel  *)
(* key: they do not influence any decision of the code.                    *)
(*                                                                         *)
(* mapPool, canNotify / computeTransition, getAvatarIconUrl and            *)
(* setSettings are also specified on their own (SpecPool, SpecPure,        *)
(* SpecAvatar, SpecSettings), each over its own inputs.                    *)
(***************************************************************************)
EXTENDS Integers, Sequences, FiniteSets, TLC

\* ---------------------------------------------------------------- bounds
MaxCycles == 4        \* poll cycles started in one behaviour
MaxTicks  == 1        \* clock advances in one behaviour
MaxEvents == 2        \* user clicks / dismissals in one behaviour
MaxOverlaps == 1      \* runs started while another run is in flight
MaxNotifCycles == 1   \* poll cycles in the behaviours with user events
TickMs    == 60000    \* granularity of the modelled clock, in ms
StartTime == 60000    \* Date.now() at install (positive)
MaxRaiseCycles == 2   \* poll cycles in the behaviours with raising tasks
MaxAvatarTicks == 3   \* clock advances between calls of getAvatarIconUrl
MaxAvatarCalls == 3   \* calls of getAvatarIconUrl in one behaviour
HorizonTtls == 2      \* the clock stays within this many TTLs of StartTime
MaxSettingsCalls == 2 \* calls of setSettings in one behaviour
MaxItems  == 4        \* longest items array given to mapPool
MaxLimit  == 2        \* largest limit given to mapPool
MaxUpdates == 2       \* updateSettings messages in one behaviour

\* ------------------------------------------------------------- constants
MsPerMin        == 60000     \* cooldownMin * 60 * 1000
PollConcurrency == 4
AvatarCacheTtlMs == 604800000    \* 7 * 24 * 60 * 60 * 1000

DefaultIcon == "default"
AvatarIcon  == "avatar"

Triggers == {"alarm", "manual"}
Other(p) == IF p = "alarm" THEN "manual" ELSE "alarm"

Channels == {"chzzk:c1", "soop:s1"}
Sigs     == {"OPEN:A"}

\* cooldownMin values a user can have saved (all within the clamp [0,1440])
CooldownVals == {0, 1, 3}

HandleIds == 1..(MaxCycles * Cardinality(Channels))

\* What fetchStatus delivers inside withTimeout: a result, or an error /
\* timeout (ok = FALSE).
FetchFail == [ok |-> FALSE, isLive |-> FALSE, signature |-> ""]
FetchResults ==
  {FetchFail, [ok |-> TRUE, isLive |-> FALSE, signature |-> "OFF"]}
    \cup {[ok |-> TRUE, isLive |-> TRUE, signature |-> s] : s \in Sigs}

\* state[key] === undefined
NoState == [present |-> FALSE, lastIsLive |-> FALSE, lastSig |-> "", updatedAt |-> 0]
\* notified[key] === undefined
NoRec == [present |-> FALSE, lastNotifiedSig |-> "", lastNotifiedAt |-> 0]

VARIABLES
  now,        \* Date.now()
  settings,   \* storage: settings
  watchlist,  \* storage: watchlist (sequence of channel keys)
  state,      \* storage: state     key -> ChannelState
  notified,   \* storage: notified  key -> NotificationRecord
  notifMap,   \* storage: notifMap  set of [id, url]
  cyc,        \* per trigger: the pollAll run it started
  task,       \* per trigger and channel: the pool task of that run
  lockQ,      \* operations chained on notifMapMutex, oldest first
  nextId,     \* next fresh notification id
  displayed,  \* notification ids currently shown by the host
  handler,    \* per notification id: progress of onClicked / onClosed
  hist,       \* per channel: one record per finished poll of the channel
  budget,     \* what the behaviour may still do: cycles, ticks, events
  pool,       \* one call of mapPool(items, limit, fn)
  avatar,     \* avatarCache as getAvatarIconUrl sees it, and its last call
  call,       \* the last call of a function checked on its own
  alarm,      \* chrome.alarms: periodInMinutes of ALARM_NAME, NoAlarm if none
  upd         \* per updateSettings message: progress of its handler

vars == <<now, settings, watchlist, state, notified, notifMap, cyc, task,
          lockQ, nextId, displayed, handler, hist, budget, pool, avatar,
          call, alarm, upd>>

\* ------------------------------------------------- pure functions (code)

\* canNotify with the cooldown compared by > where the code has >=
canNotifyStrict(key, sig, notifiedMap, st, t) ==
  LET cooldownMs == st.cooldownMin * MsPerMin
      n == notifiedMap[key]
  IN IF ~n.present THEN TRUE
     ELSE IF n.lastNotifiedSig = sig /\ cooldownMs > 0
          THEN t - n.lastNotifiedAt > cooldownMs
          ELSE TRUE

\* canNotify applying the cooldown whatever the recorded signature
canNotifyIgnoresSig(key, sig, notifiedMap, st, t) ==
  LET cooldownMs == st.cooldownMin * MsPerMin
      n == notifiedMap[key]
  IN IF ~n.present THEN TRUE
     ELSE IF cooldownMs > 0
          THEN t - n.lastNotifiedAt >= cooldownMs
          ELSE TRUE

\* Date.now() - (n.lastNotifiedAt || 0) >= cooldownMs, behind the signature test
canNotify(key, sig, notifiedMap, st, t) ==
  LET cooldownMs == st.cooldownMin * MsPerMin
      n == notifiedMap[key]
  IN IF ~n.present THEN TRUE
     ELSE IF n.lastNotifiedSig = sig /\ cooldownMs > 0
          THEN t - n.lastNotifiedAt >= cooldownMs
          ELSE TRUE

\* computeTransition without the test of the previous state: any live
\* status past the first-seen check notifies
computeTransitionLiveToLive(prev, status, st) ==
  IF ~prev.present /\ status.isLive /\ ~st.notifyIfAlreadyLive THEN FALSE
  ELSE status.isLive

\* computeTransition without the first-seen check
computeTransitionNoFirstSeen(prev, status, st) ==
  ~(prev.present /\ prev.lastIsLive) /\ status.isLive

\* computeTransition without the test of the current status
computeTransitionIgnoresNow(prev, status, st) ==
  IF ~prev.present /\ status.isLive /\ ~st.notifyIfAlreadyLive THEN FALSE
  ELSE ~(prev.present /\ prev.lastIsLive)

\* computeTransition that also notifies when a live channel changes its
\* signature
computeTransitionOnNewSig(prev, status, st) ==
  IF ~prev.present /\ status.isLive /\ ~st.notifyIfAlreadyLive THEN FALSE
  ELSE \/ ~(prev.present /\ prev.lastIsLive) /\ status.isLive
       \/ prev.present /\ prev.lastIsLive /\ status.isLive
            /\ prev.lastSig # status.signature

\* the shouldNotify field of computeTransition's result
computeTransition(prev, status, st) ==
  LET isFirstSeen == ~prev.present
      prevLive == prev.present /\ prev.lastIsLive
      nowLive == status.isLive
  IN IF isFirstSeen /\ status.isLive /\ ~st.notifyIfAlreadyLive THEN FALSE
     ELSE IF ~prevLive /\ nowLive THEN TRUE
     ELSE FALSE

\* safeFetchStatus reporting a failed fetch as offline
safeFetchStatusForcesOff(r, prev) ==
  IF r.ok
  THEN [isLive |-> r.isLive,
        signature |-> IF r.signature # "" THEN r.signature
                      ELSE IF r.isLive THEN "LIVE" ELSE "OFF"]
  ELSE [isLive |-> FALSE, signature |-> "OFF"]

\* safeFetchStatus, given what withTimeout(fetchStatus(item)) delivered
safeFetchStatus(r, prev) ==
  IF r.ok
  THEN [isLive |-> r.isLive,
        signature |-> IF r.signature # "" THEN r.signature
                      ELSE IF r.isLive THEN "LIVE" ELSE "OFF"]
  ELSE [isLive |-> prev.present /\ prev.lastIsLive,
        signature |-> IF prev.present /\ prev.lastSig # "" THEN prev.lastSig
                      ELSE "UNKNOWN"]

\* no mutex: every operation runs as soon as it is called
LockAdmitsAll(q, i) == TRUE

\* withNotifMapLock: the i-th operation chained on notifMapMutex runs only
\* when every operation chained before it has settled
LockAdmits(q, i) == i = 1

\* ----------------------------------------------------------------- state

IdleCycle ==
  [pc |-> "idle", settings |-> [cooldownMin |-> 0, notifyIfAlreadyLive |-> FALSE],
   state |-> [k \in Channels |-> NoState],
   notified |-> [k \in Channels |-> NoRec],
   items |-> <<>>, idx |-> 0, overlapped |-> FALSE]

NoStatus == [isLive |-> FALSE, signature |-> ""]

IdleTask ==
  [pc |-> "none", prev |-> NoState, obs |-> FetchFail, status |-> NoStatus,
   iconUrl |-> DefaultIcon, id |-> 0, attempts |-> 0, created |-> FALSE,
   didNotify |-> FALSE, gateAt |-> 0, finishedAt |-> 0, failed |-> FALSE,
   lastIcon |-> DefaultIcon, prevRec |-> NoRec]

IdleHandler == [clicked |-> "none", closed |-> "none"]

\* mapPool before it is called; order lists the item indexes in the order
\* their tasks settled
IdlePool ==
  [pc |-> "idle", items |-> <<>>, limit |-> 1, idx |-> 0, cur |-> <<>>,
   st |-> <<>>, results |-> <<>>, settled |-> 0, order |-> <<>>]

\* nothing cached for the channel, getAvatarIconUrl not called yet
NoEntry == [url |-> "", fetchedAt |-> 0, dataUrl |-> "", dataFetchedAt |-> 0]
NoAvatar == [cache |-> NoEntry, calls |-> 0]

NoCall == [fn |-> "none", pc |-> "none"]

\* no alarm named ALARM_NAME is registered
NoAlarm == 0

\* the updateSettings messages of one behaviour, and a handler not yet started
Requests == 1..MaxUpdates
IdleUpd == [pc |-> "idle"]

Init ==
  /\ now = StartTime
  /\ settings \in [cooldownMin : CooldownVals, notifyIfAlreadyLive : BOOLEAN]
  /\ watchlist = <<"chzzk:c1">>
  /\ state = [k \in Channels |-> NoState]
  /\ notified = [k \in Channels |-> NoRec]
  /\ notifMap = {}
  /\ cyc = [p \in Triggers |-> IdleCycle]
  /\ task = [p \in Triggers |-> [k \in Channels |-> IdleTask]]
  /\ lockQ = <<>>
  /\ nextId = 1
  /\ displayed = {}
  /\ handler = [h \in HandleIds |-> IdleHandler]
  /\ hist = [k \in Channels |-> <<>>]
  /\ budget = [cycles |-> MaxCycles, ticks |-> MaxTicks, events |-> MaxEvents,
               overlaps |-> MaxOverlaps]
  /\ pool = IdlePool
  /\ avatar = NoAvatar
  /\ call = NoCall
  /\ alarm = NoAlarm
  /\ upd = [r \in Requests |-> IdleUpd]

InFlight(p) == cyc[p].pc # "idle"

\* ------------------------------------------------------------- the clock

Tick ==
  /\ budget.ticks > 0
  /\ budget' = [budget EXCEPT !.ticks = @ - 1]
  /\ now' = now + TickMs
  /\ UNCHANGED <<pool, avatar, call, alarm, upd>>
  /\ UNCHANGED <<settings, watchlist, state, notified, notifMap, cyc, task,
                 lockQ, nextId, displayed, handler, hist>>

\* ------------------------------------------------------------- pollAll

\* onAlarm / onMessage("pollNow"): pollAll starts and awaits getSettings().
\* Nothing keeps a second run from starting while one is in flight.
StartCycle(p) ==
  /\ cyc[p].pc = "idle"
  /\ budget.cycles > 0
  /\ InFlight(Other(p)) => budget.overlaps > 0
  /\ budget' = [budget EXCEPT !.cycles = @ - 1,
                              !.overlaps = IF InFlight(Other(p)) THEN @ - 1 ELSE @]
  /\ cyc' = [q \in Triggers |->
               IF q = p
               THEN [cyc[p] EXCEPT !.pc = "loading", !.settings = settings,
                                   !.overlapped = InFlight(Other(p))]
               ELSE [cyc[q] EXCEPT !.overlapped = @ \/ InFlight(q)]]
  /\ UNCHANGED <<pool, avatar, call, alarm, upd>>
  /\ UNCHANGED <<now, settings, watchlist, state, notified, notifMap, task,
                 lockQ, nextId, displayed, handler, hist>>

Min(a, b) == IF a < b THEN a ELSE b

\* a summary that counts the status of a task although the task raised
SummaryCountsFailed(c, ts) ==
  LET ran == {c.items[i] : i \in 1..Len(c.items)}
  IN [checked |-> Len(c.items),
      liveNow |-> Cardinality({k \in ran : ts[k].status.isLive}),
      notifiedCount |-> Cardinality({k \in ran : ts[k].didNotify})]

\* What pollAll returns: checked = watchlist.length, and the counts of the
\* results r with r?.isLive and r?.didNotify (the result of a task that
\* raised is null).  The keys of the watchlist are distinct.
Summary(c, ts) ==
  LET ran == {c.items[i] : i \in 1..Len(c.items)}
  IN [checked |-> Len(c.items),
      liveNow |-> Cardinality({k \in ran : ~ts[k].failed /\ ts[k].status.isLive}),
      notifiedCount |-> Cardinality({k \in ran : ~ts[k].failed /\ ts[k].didNotify})]

\* One record of hist: what run c did for channel k (ts are the run's pool
\* tasks), read off the maps the run is about to persist.
PollRecord(k, c, ts) ==
  LET t == ts[k]
  IN
  [overlapped |-> c.overlapped,
   cooldownMin |-> c.settings.cooldownMin,
   notifyIfAlreadyLive |-> c.settings.notifyIfAlreadyLive,
   obs |-> t.obs, prevPresent |-> t.prev.present,
   prevLive |-> t.prev.present /\ t.prev.lastIsLive,
   lastIsLive |-> c.state[k].lastIsLive, lastSig |-> c.state[k].lastSig,
   didNotify |-> t.didNotify, attempts |-> t.attempts, created |-> t.created,
   gateAt |-> t.gateAt,
   recordedAt |-> IF t.didNotify THEN c.notified[k].lastNotifiedAt ELSE 0,
   failed |-> t.failed, summary |-> Summary(c, ts),
   id |-> t.id, iconUrl |-> t.iconUrl, lastIcon |-> t.lastIcon,
   prevUpdatedAt |-> t.prev.updatedAt, updatedAt |-> c.state[k].updatedAt,
   prev |-> t.prev, prevRec |-> t.prevRec, finishedAt |-> t.finishedAt,
   rec |-> c.notified[k]]

\* The tail of pollAll once mapPool has resolved: one storage.set of the
\* run's own copies of state and notified, then the run is over.
Persist(p, c, ts) ==
  /\ state' = c.state
  /\ notified' = c.notified
  /\ hist' = [k \in Channels |->
                IF \E i \in 1..Len(c.items) : c.items[i] = k
                THEN Append(hist[k], PollRecord(k, c, ts))
                ELSE hist[k]]
  /\ cyc' = [cyc EXCEPT ![p] = IdleCycle]
  /\ task' = [task EXCEPT ![p] = [k \in Channels |-> IdleTask]]

\* pollAll after getSettings(): the four storage.get calls are issued
\* together, then mapPool starts min(limit, n) workers; each worker calls fn
\* on its item, which reads prev and awaits safeFetchStatus.
LoadDispatch(p) ==
  /\ cyc[p].pc = "loading"
  /\ LET n == Len(watchlist)
         w == Min(PollConcurrency, n)
         c == [cyc[p] EXCEPT !.pc = "running", !.state = state,
                             !.notified = notified, !.items = watchlist,
                             !.idx = w]
         ts == [k \in Channels |->
                  IF \E i \in 1..w : watchlist[i] = k
                  THEN [IdleTask EXCEPT !.pc = "fetch", !.prev = state[k],
                                        !.prevRec = notified[k]]
                  ELSE IdleTask]
     IN IF n = 0
        THEN Persist(p, c, ts)
        ELSE /\ cyc' = [cyc EXCEPT ![p] = c]
             /\ task' = [task EXCEPT ![p] = ts]
             /\ UNCHANGED <<state, notified, hist>>
  /\ UNCHANGED <<pool, avatar, call, alarm, upd>>
  /\ UNCHANGED <<now, settings, watchlist, notifMap, lockQ, nextId,
                 displayed, handler, budget>>

\* keys that collide: whatever the key, the one entry there is gets written
AssignAnyKey(map, key, value) == [j \in DOMAIN map |-> value]

\* state[item.key] = ... and notified[item.key] = ... on the maps that the
\* tasks of one run share
Assign(map, key, value) == [map EXCEPT ![key] = value]

\* The rest of fn(item) after notify (or after the gates said no): the
\* NotificationRecord when notify was called, the ChannelState always; then
\* the worker takes the next index, and the run persists when no task is left.
FinishTask(p, k, t, called) ==
  LET c0 == cyc[p]
      st == [present |-> TRUE, lastIsLive |-> t.status.isLive,
             lastSig |-> t.status.signature, updatedAt |-> now]
      rec == [present |-> TRUE, lastNotifiedSig |-> t.status.signature,
              lastNotifiedAt |-> now]
      more == c0.idx < Len(c0.items)
      nxt == IF more THEN c0.items[c0.idx + 1] ELSE k
      c == [c0 EXCEPT !.state = Assign(@, k, st),
                      !.notified = IF called THEN Assign(@, k, rec) ELSE @,
                      !.idx = IF more THEN @ + 1 ELSE @]
      t1 == [t EXCEPT !.pc = "done", !.didNotify = called, !.finishedAt = now]
      ts == [j \in Channels |->
               IF j = k THEN t1
               ELSE IF more /\ j = nxt
                    THEN [IdleTask EXCEPT !.pc = "fetch", !.prev = c.state[j],
                                          !.prevRec = c.notified[j]]
                    ELSE task[p][j]]
      allDone == \A i \in 1..Len(c.items) : ts[c.items[i]].pc = "done"
  IN IF allDone
     THEN Persist(p, c, ts)
     ELSE /\ cyc' = [cyc EXCEPT ![p] = c]
          /\ task' = [task EXCEPT ![p] = ts]
          /\ UNCHANGED <<state, notified, hist>>

\* fn(item) raises: mapPool stores null for the item, nothing is written
\* to the run's state and notified for the channel; the worker takes the
\* next index, and the run persists when no task is left.
FailTask(p, k, t) ==
  LET c0 == cyc[p]
      more == c0.idx < Len(c0.items)
      nxt == IF more THEN c0.items[c0.idx + 1] ELSE k
      c == [c0 EXCEPT !.idx = IF more THEN @ + 1 ELSE @]
      t1 == [t EXCEPT !.pc = "done", !.failed = TRUE, !.finishedAt = now]
      ts == [j \in Channels |->
               IF j = k THEN t1
               ELSE IF more /\ j = nxt
                    THEN [IdleTask EXCEPT !.pc = "fetch", !.prev = c.state[j],
                                          !.prevRec = c.notified[j]]
                    ELSE task[p][j]]
      allDone == \A i \in 1..Len(c.items) : ts[c.items[i]].pc = "done"
  IN IF allDone
     THEN Persist(p, c, ts)
     ELSE /\ cyc' = [cyc EXCEPT ![p] = c]
          /\ task' = [task EXCEPT ![p] = ts]
          /\ UNCHANGED <<state, notified, hist>>

\* safeFetchStatus settles with r; computeTransition and canNotify decide.
FetchDone(p, k, r) ==
  /\ task[p][k].pc = "fetch"
  /\ LET c == cyc[p]
         prev == task[p][k].prev
         status == safeFetchStatus(r, prev)
         should == computeTransition(prev, status, c.settings)
         \* gateAt: the Date.now() canNotify read, when it was consulted
         t == [task[p][k] EXCEPT !.obs = r, !.status = status,
                                 !.gateAt = IF should THEN now ELSE 0]
     IN IF should /\ canNotify(k, status.signature, c.notified, c.settings, now)
        THEN \* await getAvatarIconUrl(item, avatarCache)
             /\ task' = [task EXCEPT ![p][k] = [t EXCEPT !.pc = "avatar"]]
             /\ UNCHANGED <<state, notified, hist, cyc>>
        ELSE FinishTask(p, k, t, FALSE)
  /\ UNCHANGED <<pool, avatar, call, alarm, upd>>
  /\ UNCHANGED <<now, settings, watchlist, notifMap, lockQ, nextId,
                 displayed, handler, budget>>

\* ------------------------------------------------- notifMap, under lock

\* fn of the operation starts (its storage.get is issued) as soon as the
\* lock admits it
Admit(q, map) ==
  [j \in 1..Len(q) |->
     IF q[j].phase = "queued" /\ LockAdmits(q, j)
     THEN [q[j] EXCEPT !.phase = "got", !.snap = map]
     ELSE q[j]]

\* withNotifMapLock(fn) called
Enqueue(q, op, id, url, owner, map) ==
  Admit(Append(q, [op |-> op, id |-> id, url |-> url, owner |-> owner,
                   phase |-> "queued", snap |-> {}]), map)

Remove(q, i) == [j \in 1..(Len(q) - 1) |-> IF j < i THEN q[j] ELSE q[j + 1]]

\* a delete that writes its copy back with the entry still in it
WrittenKeepsEntry(o) ==
  IF o.op = "upsert"
  THEN {e \in o.snap : e.id # o.id} \cup {[id |-> o.id, url |-> o.url]}
  ELSE o.snap

\* what the operation writes back, computed from the copy it read
Written(o) ==
  IF o.op = "upsert"
  THEN {e \in o.snap : e.id # o.id} \cup {[id |-> o.id, url |-> o.url]}
  ELSE {e \in o.snap : e.id # o.id}

Writes(o) == o.op = "upsert" \/ \E e \in o.snap : e.id = o.id

\* --------------------------------------------------------------- notify

\* getAvatarIconUrl settles (an icon, or null); notify picks a fresh id and
\* makes its first create attempt with iconUrl || DEFAULT_ICON_URL
AvatarDone(p, k, icon) ==
  /\ task[p][k].pc = "avatar"
  /\ nextId \in HandleIds
  /\ task' = [task EXCEPT ![p][k] =
                [@ EXCEPT !.pc = "create1", !.iconUrl = icon, !.id = nextId,
                          !.attempts = 1, !.lastIcon = icon]]
  /\ nextId' = nextId + 1
  /\ UNCHANGED <<pool, avatar, call, alarm, upd>>
  /\ UNCHANGED <<now, settings, watchlist, state, notified, notifMap, cyc,
                 lockQ, displayed, handler, hist, budget>>

\* getAvatarIconUrl settles and chrome.notifications.create throws when
\* notify calls it (the executor in createNotification has no try): the
\* promise of createNotification rejects, and with it notify and fn(item)
CreateThrows(p, k) ==
  /\ task[p][k].pc = "avatar"
  /\ FailTask(p, k, [task[p][k] EXCEPT !.attempts = 1])
  /\ UNCHANGED <<pool, avatar, call, alarm, upd>>
  /\ UNCHANGED <<now, settings, watchlist, notifMap, lockQ, nextId,
                 displayed, handler, budget>>

\* a second attempt after every failed first attempt
RetriesAlways(iconUrl) == TRUE

\* if (!createdId && iconUrl && iconUrl !== DEFAULT_ICON_URL): whether a
\* failed first attempt with this icon is followed by a second one
RetriesWithDefault(iconUrl) == iconUrl # DefaultIcon

\* the callback of chrome.notifications.create: created, or lastError
CreateDone(p, k, ok) ==
  /\ task[p][k].pc \in {"create1", "create2"}
  /\ LET t == task[p][k]
     IN IF ok
        THEN \* createdId: await upsertNotifMap(createdId, url)
             /\ task' = [task EXCEPT ![p][k] =
                           [t EXCEPT !.pc = "upsert", !.created = TRUE]]
             /\ displayed' = displayed \cup {t.id}
             /\ lockQ' = Enqueue(lockQ, "upsert", t.id, k, <<p, k>>, notifMap)
             /\ UNCHANGED <<state, notified, hist, cyc>>
        ELSE IF t.pc = "create1" /\ RetriesWithDefault(t.iconUrl)
        THEN \* retry once with the default icon
             /\ task' = [task EXCEPT ![p][k] =
                           [t EXCEPT !.pc = "create2", !.attempts = 2,
                                     !.lastIcon = DefaultIcon]]
             /\ UNCHANGED <<state, notified, hist, cyc, displayed, lockQ>>
        ELSE \* if (!createdId) return;  -- pollAll goes on after notify
             /\ FinishTask(p, k, t, TRUE)
             /\ UNCHANGED <<displayed, lockQ>>
  /\ UNCHANGED <<pool, avatar, call, alarm, upd>>
  /\ UNCHANGED <<now, settings, watchlist, notifMap, nextId, handler,
                 budget>>

\* An admitted operation goes on after its storage.get: it writes the map
\* back (storage.set), the lock passes on, and its caller resumes.
LockStep(i) ==
  /\ i \in 1..Len(lockQ)
  /\ lockQ[i].phase = "got"
  /\ LET o == lockQ[i]
         map == IF Writes(o) THEN Written(o) ELSE notifMap
     IN /\ notifMap' = map
        /\ lockQ' = Admit(Remove(lockQ, i), map)
        /\ IF o.op = "upsert"
           THEN /\ FinishTask(o.owner[1], o.owner[2], task[o.owner[1]][o.owner[2]], TRUE)
                /\ UNCHANGED handler
           ELSE /\ handler' = [handler EXCEPT ![o.id] =
                                 IF o.owner = "clicked"
                                 THEN [@ EXCEPT !.clicked = "done"]
                                 ELSE [@ EXCEPT !.closed = "done"]]
                /\ UNCHANGED <<state, notified, hist, cyc, task>>
  /\ UNCHANGED <<pool, avatar, call, alarm, upd>>
  /\ UNCHANGED <<now, settings, watchlist, nextId, displayed, budget>>

\* ------------------------------------------------- click and dismissal

\* onClicked: await getNotifMapEntry(id) (read outside the lock)
Clicked(h) ==
  /\ h \in displayed
  /\ handler[h].clicked = "none"
  /\ budget.events > 0
  /\ budget' = [budget EXCEPT !.events = @ - 1]
  /\ handler' = [handler EXCEPT ![h] =
                   [@ EXCEPT !.clicked = IF \E e \in notifMap : e.id = h
                                         THEN "readUrl" ELSE "readNull"]]
  /\ UNCHANGED <<pool, avatar, call, alarm, upd>>
  /\ UNCHANGED <<now, settings, watchlist, state, notified, notifMap, cyc,
                 task, lockQ, nextId, displayed, hist>>

\* onClicked after the read: open the tab if an entry was found, then
\* await deleteNotifMapEntry(id)
ClickedDelete(h) ==
  /\ handler[h].clicked \in {"readUrl", "readNull"}
  /\ handler' = [handler EXCEPT ![h] = [@ EXCEPT !.clicked = "deleting"]]
  /\ lockQ' = Enqueue(lockQ, "delete", h, "", "clicked", notifMap)
  /\ UNCHANGED <<pool, avatar, call, alarm, upd>>
  /\ UNCHANGED <<now, settings, watchlist, state, notified, notifMap, cyc,
                 task, nextId, displayed, hist, budget>>

\* onClosed: await deleteNotifMapEntry(id)
Closed(h) ==
  /\ h \in displayed
  /\ handler[h].closed = "none"
  /\ budget.events > 0
  /\ budget' = [budget EXCEPT !.events = @ - 1]
  /\ displayed' = displayed \ {h}
  /\ handler' = [handler EXCEPT ![h] = [@ EXCEPT !.closed = "deleting"]]
  /\ lockQ' = Enqueue(lockQ, "delete", h, "", "closed", notifMap)
  /\ UNCHANGED <<pool, avatar, call, alarm, upd>>
  /\ UNCHANGED <<now, settings, watchlist, state, notified, notifMap, cyc,
                 task, nextId, hist>>

\* ------------------------------------------------------- specification

\* The poll engine.  The user leaves the notifications alone: the click
\* and dismissal handlers touch only notifMap and the lock, which no
\* decision of pollAll reads.
Next ==
  \/ Tick
  \/ \E p \in Triggers : StartCycle(p)
  \/ \E p \in Triggers : LoadDispatch(p)
  \/ \E p \in Triggers, k \in Channels, r \in FetchResults : FetchDone(p, k, r)
  \/ \E p \in Triggers, k \in Channels, icon \in {AvatarIcon, DefaultIcon} :
        AvatarDone(p, k, icon)
  \/ \E p \in Triggers, k \in Channels, ok \in BOOLEAN : CreateDone(p, k, ok)
  \/ \E i \in 1..Len(lockQ) : LockStep(i)

Spec == Init /\ [][Next]_vars

\* The notification handle map: two watched channels, so that one run has
\* several notify calls in flight, and a user who clicks and dismisses.
\* The clock stands still (no decision about notifMap reads it).
InitNotif ==
  /\ now = StartTime
  /\ settings \in [cooldownMin : {0, 1}, notifyIfAlreadyLive : BOOLEAN]
  /\ watchlist = <<"chzzk:c1", "soop:s1">>
  /\ state = [k \in Channels |-> NoState]
  /\ notified = [k \in Channels |-> NoRec]
  /\ notifMap = {}
  /\ cyc = [p \in Triggers |-> IdleCycle]
  /\ task = [p \in Triggers |-> [k \in Channels |-> IdleTask]]
  /\ lockQ = <<>>
  /\ nextId = 1
  /\ displayed = {}
  /\ handler = [h \in HandleIds |-> IdleHandler]
  /\ hist = [k \in Channels |-> <<>>]
  /\ budget = [cycles |-> MaxNotifCycles, ticks |-> 0, events |-> MaxEvents,
               overlaps |-> 0]
  /\ pool = IdlePool
  /\ avatar = NoAvatar
  /\ call = NoCall
  /\ alarm = NoAlarm
  /\ upd = [r \in Requests |-> IdleUpd]

NextNotif ==
  \/ \E p \in Triggers : StartCycle(p)
  \/ \E p \in Triggers : LoadDispatch(p)
  \/ \E p \in Triggers, k \in Channels, r \in FetchResults : FetchDone(p, k, r)
  \/ \E p \in Triggers, k \in Channels, icon \in {AvatarIcon, DefaultIcon} :
        AvatarDone(p, k, icon)
  \/ \E p \in Triggers, k \in Channels, ok \in BOOLEAN : CreateDone(p, k, ok)
  \/ \E i \in 1..Len(lockQ) : LockStep(i)
  \/ \E h \in HandleIds : Clicked(h)
  \/ \E h \in HandleIds : ClickedDelete(h)
  \/ \E h \in HandleIds : Closed(h)

SpecNotif == InitNotif /\ [][NextNotif]_vars

\* Poll cycles over two channels, one after the other, in which the task
\* of a channel can raise.
InitCycle ==
  /\ now = StartTime
  /\ settings \in [cooldownMin : {0}, notifyIfAlreadyLive : BOOLEAN]
  /\ watchlist = <<"chzzk:c1", "soop:s1">>
  /\ state = [k \in Channels |-> NoState]
  /\ notified = [k \in Channels |-> NoRec]
  /\ notifMap = {}
  /\ cyc = [p \in Triggers |-> IdleCycle]
  /\ task = [p \in Triggers |-> [k \in Channels |-> IdleTask]]
  /\ lockQ = <<>>
  /\ nextId = 1
  /\ displayed = {}
  /\ handler = [h \in HandleIds |-> IdleHandler]
  /\ hist = [k \in Channels |-> <<>>]
  /\ budget = [cycles |-> MaxRaiseCycles, ticks |-> 0, events |-> 0,
               overlaps |-> 0]
  /\ pool = IdlePool
  /\ avatar = NoAvatar
  /\ call = NoCall
  /\ alarm = NoAlarm
  /\ upd = [r \in Requests |-> IdleUpd]

NextCycle ==
  \/ \E p \in Triggers : StartCycle(p)
  \/ \E p \in Triggers : LoadDispatch(p)
  \/ \E p \in Triggers, k \in Channels, r \in FetchResults : FetchDone(p, k, r)
  \/ \E p \in Triggers, k \in Channels, icon \in {AvatarIcon, DefaultIcon} :
        AvatarDone(p, k, icon)
  \/ \E p \in Triggers, k \in Channels : CreateThrows(p, k)
  \/ \E p \in Triggers, k \in Channels, ok \in BOOLEAN : CreateDone(p, k, ok)
  \/ \E i \in 1..Len(lockQ) : LockStep(i)

SpecCycle == InitCycle /\ [][NextCycle]_vars

\* -------------------------------------------------------------- mapPool

\* The service worker at rest: what the specifications of single functions
\* leave untouched.
Quiet ==
  /\ now = StartTime
  /\ watchlist = <<>>
  /\ state = [k \in Channels |-> NoState]
  /\ notified = [k \in Channels |-> NoRec]
  /\ notifMap = {}
  /\ cyc = [p \in Triggers |-> IdleCycle]
  /\ task = [p \in Triggers |-> [k \in Channels |-> IdleTask]]
  /\ lockQ = <<>>
  /\ nextId = 1
  /\ displayed = {}
  /\ handler = [h \in HandleIds |-> IdleHandler]
  /\ hist = [k \in Channels |-> <<>>]

ItemVals == {"a", "b"}
ItemSeqs == UNION {[1..n -> ItemVals] : n \in 0..MaxItems}

\* the array holes of new Array(n), and the null stored by the catch
Unset == "unset"
Null  == "null"

\* the value fn resolves with for an item
Fn(x) == IF x = "a" THEN "fn(a)" ELSE "fn(b)"

\* one worker per item, whatever the limit
PoolWorkersPerItem(limit, n) == n

\* Array.from({ length: Math.min(limit, items.length) }, ...)
PoolWorkers(limit, n) == Min(limit, n)

\* results.push(...): the slot is the rank of the task among the settled
PoolSlotByCompletion(i, settled) == settled + 1

\* results[i] = ...: the slot a settled task writes is its input index
PoolSlot(i, settled) == i

\* a worker that leaves its loop when the task it awaited raised
WorkerStopsOnRaise(outcome) == outcome = "ok"

\* try/catch inside while (true): the worker takes the next index whether
\* the task it awaited returned or raised
WorkerGoesOn(outcome) == TRUE

\* try { results[i] = await fn(items[i], i) } catch { results[i] = null }
TaskResult(outcome, x) == IF outcome = "ok" THEN Fn(x) ELSE Null

\* mapPool(items, limit, fn) is called: the workers are created one after
\* the other, each takes the next index and calls fn up to its first await.
\* With no item there is no worker and Promise.all([]) resolves.
PoolStart ==
  /\ pool.pc = "idle"
  /\ LET n == Len(pool.items)
         w == PoolWorkers(pool.limit, n)
     IN pool' = [pool EXCEPT
                   !.pc = IF w = 0 THEN "returned" ELSE "running",
                   !.idx = w,
                   !.cur = [k \in 1..w |-> k],
                   !.st = [i \in 1..n |-> IF i <= w THEN "running" ELSE "waiting"],
                   !.results = [i \in 1..n |-> Unset]]
  /\ UNCHANGED <<now, settings, watchlist, state, notified, notifMap, cyc,
                 task, lockQ, nextId, displayed, handler, hist, budget,
                 avatar, call,
                 alarm, upd>>

\* The fn awaited by worker k settles (returns or raises): the worker
\* stores the result, then runs  const i = idx++; if (i >= items.length)
\* break;  and calls fn on the item it took.  mapPool returns when every
\* worker has left its loop.
TaskSettles(k, outcome) ==
  /\ pool.pc = "running"
  /\ k \in 1..Len(pool.cur)
  /\ pool.cur[k] # 0
  /\ LET n == Len(pool.items)
         i == pool.cur[k]
         goesOn == WorkerGoesOn(outcome)
         takes == goesOn /\ pool.idx < n
         nxt == pool.idx + 1
         cur1 == [pool.cur EXCEPT ![k] = IF takes THEN nxt ELSE 0]
         st1 == [pool.st EXCEPT ![i] = outcome]
     IN pool' = [pool EXCEPT
                   !.results[PoolSlot(i, pool.settled)] =
                       TaskResult(outcome, pool.items[i]),
                   !.settled = @ + 1,
                   !.order = Append(@, i),
                   !.idx = IF goesOn THEN @ + 1 ELSE @,
                   !.cur = cur1,
                   !.st = IF takes THEN [st1 EXCEPT ![nxt] = "running"] ELSE st1,
                   !.pc = IF \A j \in 1..Len(cur1) : cur1[j] = 0
                          THEN "returned" ELSE "running"]
  /\ UNCHANGED <<now, settings, watchlist, state, notified, notifMap, cyc,
                 task, lockQ, nextId, displayed, handler, hist, budget,
                 avatar, call,
                 alarm, upd>>

\* mapPool called with any items and any limit >= 1
InitPool ==
  /\ Quiet
  /\ settings = [cooldownMin |-> 0, notifyIfAlreadyLive |-> FALSE]
  /\ budget = [cycles |-> 0, ticks |-> 0, events |-> 0, overlaps |-> 0]
  /\ pool \in {[IdlePool EXCEPT !.items = s, !.limit = l] :
                 s \in ItemSeqs, l \in 1..MaxLimit}
  /\ avatar = NoAvatar
  /\ call = NoCall
  /\ alarm = NoAlarm
  /\ upd = [r \in Requests |-> IdleUpd]

NextPool ==
  \/ PoolStart
  \/ \E k \in 1..MaxItems, outcome \in {"ok", "raised"} : TaskSettles(k, outcome)

SpecPool == InitPool /\ [][NextPool]_vars

\* ------------------------------------- canNotify and computeTransition

\* signatures of two different broadcasts, and of no broadcast
PureSigs == {"OPEN:A", "OPEN:B"}

\* notified[key]: absent, or a record of either signature written at
\* StartTime, or one whose timestamp is missing (lastNotifiedAt || 0)
PureRecs ==
  {NoRec} \cup [present : {TRUE}, lastNotifiedSig : PureSigs,
                lastNotifiedAt : {0, StartTime}]

\* Date.now() at the call: before, at and around one cooldown minute after
\* StartTime, and later
PureTimes ==
  {StartTime - 1, StartTime, StartTime + MsPerMin - 1, StartTime + MsPerMin,
   StartTime + MsPerMin + 1, StartTime + 3 * MsPerMin}

\* state[key]: absent, or written by an earlier poll
PurePrevs ==
  {NoState} \cup [present : {TRUE}, lastIsLive : BOOLEAN,
                  lastSig : PureSigs \cup {"OFF"}, updatedAt : {StartTime}]

PureStatuses ==
  {[isLive |-> FALSE, signature |-> "OFF"]}
    \cup [isLive : {TRUE}, signature : PureSigs]

\* canNotify(item.key, status.signature, notified, settings) is called at
\* time t with rec = notified[key]
CallCanNotify(k, sig, rec, cd, t) ==
  /\ call' = [fn |-> "canNotify", sig |-> sig, rec |-> rec, cooldownMin |-> cd,
              at |-> t,
              out |-> canNotify(k, sig, [j \in Channels |-> IF j = k THEN rec ELSE NoRec],
                                [cooldownMin |-> cd, notifyIfAlreadyLive |-> FALSE], t)]
  /\ UNCHANGED <<now, settings, watchlist, state, notified, notifMap, cyc,
                 task, lockQ, nextId, displayed, handler, hist, budget,
                 pool, avatar, alarm,
                 upd>>

\* computeTransition(prev, status, settings) is called
CallComputeTransition(prev, status, nial) ==
  /\ call' = [fn |-> "computeTransition", prev |-> prev, status |-> status,
              notifyIfAlreadyLive |-> nial,
              out |-> computeTransition(prev, status,
                        [cooldownMin |-> 0, notifyIfAlreadyLive |-> nial])]
  /\ UNCHANGED <<now, settings, watchlist, state, notified, notifMap, cyc,
                 task, lockQ, nextId, displayed, handler, hist, budget,
                 pool, avatar, alarm,
                 upd>>

InitPure ==
  /\ Quiet
  /\ settings = [cooldownMin |-> 0, notifyIfAlreadyLive |-> FALSE]
  /\ budget = [cycles |-> 0, ticks |-> 0, events |-> 0, overlaps |-> 0]
  /\ pool = IdlePool
  /\ avatar = NoAvatar
  /\ call = NoCall
  /\ alarm = NoAlarm
  /\ upd = [r \in Requests |-> IdleUpd]

NextPure ==
  \/ \E k \in Channels, sig \in PureSigs, rec \in PureRecs,
        cd \in CooldownVals, t \in PureTimes : CallCanNotify(k, sig, rec, cd, t)
  \/ \E prev \in PurePrevs, status \in PureStatuses, nial \in BOOLEAN :
        CallComputeTransition(prev, status, nial)

SpecPure == InitPure /\ [][NextPure]_vars

\* ----------------------------------------------------- getAvatarIconUrl

\* profile image URLs the platform can report for the channel, and the
\* data: URL fetchImageAsDataUrl makes of each
RemoteUrls == {"u1", "u2"}
DataUrl(u) == IF u = "u1" THEN "data:u1" ELSE "data:u2"

\* fetchChzzkAvatarUrl / fetchSoopAvatarUrl: a URL, null (no image in the
\* answer), or an exception (HTTP status, network)
Lookups == RemoteUrls \cup {"none", "httpError"}

\* fetchImageAsDataUrl: the data: URL, or one of its exceptions
Downloads == {"ok", "httpError", "notImage", "tooBig", "timeout"}

\* a cache entry that never expires once written
FreshForever(fetchedAt, t) == fetchedAt # 0

\* cached.fetchedAt && now - cached.fetchedAt < AVATAR_CACHE_TTL_MS (the
\* same test is made on dataFetchedAt)
Fresh(fetchedAt, t) == fetchedAt # 0 /\ t - fetchedAt < AvatarCacheTtlMs

\* The try block of getAvatarIconUrl for the entry cached, at Date.now() =
\* t, when the platform lookup and the image download (where they are
\* made) end as given.  entry is avatarCache[item.key] afterwards.
AvatarTry(cached, t, lookup, download) ==
  LET r0 == [result |-> Null, entry |-> cached, lookedUp |-> FALSE,
             downloaded |-> FALSE, raised |-> FALSE]
  IN IF cached.dataUrl # "" /\ Fresh(cached.dataFetchedAt, t)
     THEN [r0 EXCEPT !.result = cached.dataUrl]
     ELSE
       LET reuse == cached.url # "" /\ Fresh(cached.fetchedAt, t)
           url == IF reuse THEN cached.url
                  ELSE IF lookup \in RemoteUrls THEN lookup ELSE ""
           e1 == IF ~reuse /\ url # ""
                 THEN [cached EXCEPT !.url = url, !.fetchedAt = t]
                 ELSE cached
           r1 == [r0 EXCEPT !.lookedUp = ~reuse, !.entry = e1]
       IN IF ~reuse /\ lookup = "httpError" THEN [r1 EXCEPT !.raised = TRUE]
          ELSE IF url = "" THEN r1
          ELSE IF download # "ok"
               THEN [r1 EXCEPT !.downloaded = TRUE, !.raised = TRUE]
               ELSE [r1 EXCEPT !.downloaded = TRUE, !.result = DataUrl(url),
                               !.entry = [e1 EXCEPT !.dataUrl = DataUrl(url),
                                                    !.dataFetchedAt = t]]

\* no catch: the exception leaves getAvatarIconUrl
AvatarNoCatch(r) == r

\* catch (e) { console.warn(...); return null; }
AvatarCatch(r) == IF r.raised THEN [r EXCEPT !.raised = FALSE, !.result = Null] ELSE r

getAvatarIconUrl(cached, t, lookup, download) ==
  AvatarCatch(AvatarTry(cached, t, lookup, download))

\* iconUrl: avatarIconUrl || DEFAULT_ICON_URL, the icon of notify's first
\* create attempt; notify is not reached if getAvatarIconUrl raised
IconForNotify(r) ==
  IF r.raised THEN "none"
  ELSE IF r.result = Null THEN DefaultIcon ELSE r.result

\* time passes between two polls that notify
AvatarTick(d) ==
  /\ budget.ticks > 0
  /\ d <= HorizonTtls * AvatarCacheTtlMs - (now - StartTime)
  /\ budget' = [budget EXCEPT !.ticks = @ - 1]
  /\ now' = now + d
  /\ UNCHANGED <<settings, watchlist, state, notified, notifMap, cyc, task,
                 lockQ, nextId, displayed, handler, hist, pool, avatar, call,
                 alarm, upd>>

\* a poll that notifies calls getAvatarIconUrl(item, avatarCache) and
\* passes the result to notify; the cache goes to storage with the run
GetAvatarIconUrl(lookup, download) ==
  /\ avatar.calls < MaxAvatarCalls
  /\ LET r == getAvatarIconUrl(avatar.cache, now, lookup, download)
     IN /\ avatar' = [cache |-> r.entry, calls |-> avatar.calls + 1]
        /\ call' = [fn |-> "getAvatarIconUrl", before |-> avatar.cache,
                    at |-> now, lookup |-> lookup, download |-> download,
                    result |-> r.result, lookedUp |-> r.lookedUp,
                    downloaded |-> r.downloaded, raised |-> r.raised,
                    iconUrl |-> IconForNotify(r)]
  /\ UNCHANGED <<now, settings, watchlist, state, notified, notifMap, cyc,
                 task, lockQ, nextId, displayed, handler, hist, budget, pool,
                 alarm, upd>>

InitAvatar ==
  /\ Quiet
  /\ settings = [cooldownMin |-> 0, notifyIfAlreadyLive |-> FALSE]
  /\ budget = [cycles |-> 0, ticks |-> MaxAvatarTicks, events |-> 0,
               overlaps |-> 0]
  /\ pool = IdlePool
  /\ avatar = NoAvatar
  /\ call = NoCall
  /\ alarm = NoAlarm
  /\ upd = [r \in Requests |-> IdleUpd]

NextAvatar ==
  \/ \E d \in {1, AvatarCacheTtlMs - 1} : AvatarTick(d)
  \/ \E lookup \in Lookups, download \in Downloads :
        GetAvatarIconUrl(lookup, download)

SpecAvatar == InitAvatar /\ [][NextAvatar]_vars

\* ---------------------------------------------------------- setSettings

DEFAULT_SETTINGS ==
  [pollIntervalMin |-> 1, cooldownMin |-> 10, notifyIfAlreadyLive |-> FALSE,
   requestTimeoutMs |-> 5000]

NumFields == {"pollIntervalMin", "cooldownMin", "requestTimeoutMs"}

\* the second and third argument of the clampInt call of each field
Lo(f) == CASE f = "pollIntervalMin" -> 1
           [] f = "cooldownMin" -> 0
           [] f = "requestTimeoutMs" -> 2000
Hi(f) == CASE f = "pollIntervalMin" -> 60
           [] f = "cooldownMin" -> 60 * 24
           [] f = "requestTimeoutMs" -> 30000

\* A JavaScript value given for a numeric setting:
\*   int   an integral number v, printed by String in decimal digits
\*   frac  a positive number strictly between ip and ip + 1 ("60.5")
\*   big   a number of magnitude >= 1e21, which String prints in exponent
\*         form with the one digit lead before the point ("1e+21")
\*   nan   NaN, null, undefined or text without leading digits
\* A key that next does not have is absent.
Absent == [kind |-> "absent", v |-> 0, neg |-> FALSE]
JsInt(v) == [kind |-> "int", v |-> v, neg |-> v < 0]
JsFrac  == [kind |-> "frac", v |-> 60, neg |-> FALSE]
JsBig   == [kind |-> "big", v |-> 1, neg |-> FALSE]
JsBigNeg == [kind |-> "big", v |-> 7, neg |-> TRUE]
JsNaN   == [kind |-> "nan", v |-> 0, neg |-> FALSE]

\* the objects passed as next: every numeric key absent, or with a value
\* below, within or above the range of the setting, or not a number
SettingsInputs ==
  [pollIntervalMin : {Absent, JsInt(0), JsInt(45), JsInt(61), JsBig, JsNaN},
   cooldownMin : {Absent, JsInt(-5), JsInt(45), JsInt(1441), JsFrac, JsBig},
   requestTimeoutMs : {Absent, JsInt(1), JsInt(2500), JsInt(30001), JsBig,
                       JsBigNeg},
   notifyIfAlreadyLive : BOOLEAN]

\* Number.parseInt(String(n), 10): the digits before the first character
\* that is no digit, NaN if there is none
ParseInt(x) ==
  CASE x.kind = "int" -> [nan |-> FALSE, v |-> x.v]
    [] x.kind = "frac" -> [nan |-> FALSE, v |-> x.v]
    [] x.kind = "big" -> [nan |-> FALSE, v |-> IF x.neg THEN 0 - x.v ELSE x.v]
    [] OTHER -> [nan |-> TRUE, v |-> 0]

Max(a, b) == IF a > b THEN a ELSE b

clampInt(n, min, max) ==
  LET x == ParseInt(n)
  IN IF x.nan THEN min ELSE Min(max, Max(min, x.v))

\* { ...current, ...next } for one numeric key, then its clampInt
MergedField(f, current, next) ==
  clampInt(IF next[f].kind = "absent" THEN JsInt(current[f]) ELSE next[f],
           Lo(f), Hi(f))

\* setSettings(next) is called: await getSettings()
SetSettingsCalled(next) ==
  /\ call.pc \in {"none", "set"}
  /\ budget.events > 0
  /\ budget' = [budget EXCEPT !.events = @ - 1]
  /\ call' = [fn |-> "setSettings", pc |-> "get", next |-> next]
  /\ UNCHANGED <<now, settings, watchlist, state, notified, notifMap, cyc,
                 task, lockQ, nextId, displayed, handler, hist, pool, avatar, alarm,
                 upd>>

\* setSettings after getSettings: merge, clamp, storage.set
SetSettingsWrites ==
  /\ call.fn = "setSettings" /\ call.pc = "get"
  /\ settings' =
       [pollIntervalMin |-> MergedField("pollIntervalMin", settings, call.next),
        cooldownMin |-> MergedField("cooldownMin", settings, call.next),
        requestTimeoutMs |-> MergedField("requestTimeoutMs", settings, call.next),
        notifyIfAlreadyLive |-> call.next.notifyIfAlreadyLive]
  /\ call' = [call EXCEPT !.pc = "set"]
  /\ UNCHANGED <<now, watchlist, state, notified, notifMap, cyc, task, lockQ,
                 nextId, displayed, handler, hist, budget, pool, avatar, alarm,
                 upd>>

\* nothing stored under settings: getSettings returns DEFAULT_SETTINGS
InitSettings ==
  /\ Quiet
  /\ settings = DEFAULT_SETTINGS
  /\ budget = [cycles |-> 0, ticks |-> 0, events |-> MaxSettingsCalls,
               overlaps |-> 0]
  /\ pool = IdlePool
  /\ avatar = NoAvatar
  /\ call = NoCall
  /\ alarm = NoAlarm
  /\ upd = [r \in Requests |-> IdleUpd]

NextSettings ==
  \/ \E next \in SettingsInputs : SetSettingsCalled(next)
  \/ SetSettingsWrites

SpecSettings == InitSettings /\ [][NextSettings]_vars

\* ------------------------------------ onMessage("updateSettings") (code)

\* what the options page and the popup send as msg.settings
UpdateInputs ==
  [pollIntervalMin : {Absent, JsInt(0), JsInt(45), JsInt(61)},
   cooldownMin : {Absent, JsInt(45)},
   requestTimeoutMs : {Absent},
   notifyIfAlreadyLive : {FALSE}]

\* { ...current, ...next } with the numeric fields clamped
Merged(current, next) ==
  [pollIntervalMin |-> MergedField("pollIntervalMin", current, next),
   cooldownMin |-> MergedField("cooldownMin", current, next),
   requestTimeoutMs |-> MergedField("requestTimeoutMs", current, next),
   notifyIfAlreadyLive |-> next.notifyIfAlreadyLive]

\* The message arrives: the handler calls setSettings(msg.settings), which
\* awaits getSettings(); the read is served when it is issued.
UpdateReceived(r, next) ==
  /\ upd[r].pc = "idle"
  /\ upd' = [upd EXCEPT ![r] = [pc |-> "read", next |-> next,
                                current |-> settings, period |-> NoAlarm]]
  /\ UNCHANGED <<now, settings, watchlist, state, notified, notifMap, cyc,
                 task, lockQ, nextId, displayed, handler, hist, budget, pool,
                 avatar, call, alarm>>

\* setSettings after its getSettings: merge what was read with next, clamp,
\* await chrome.storage.local.set
UpdateWrites(r) ==
  /\ upd[r].pc = "read"
  /\ settings' = Merged(upd[r].current, upd[r].next)
  /\ upd' = [upd EXCEPT ![r].pc = "written"]
  /\ UNCHANGED <<now, watchlist, state, notified, notifMap, cyc, task, lockQ,
                 nextId, displayed, handler, hist, budget, pool, avatar,
                 call, alarm>>

\* ensureAlarm is entered once setSettings returned: await getSettings()
EnsureAlarmReads(r) ==
  /\ upd[r].pc = "written"
  /\ upd' = [upd EXCEPT ![r].pc = "armRead",
                        ![r].period = clampInt(JsInt(settings.pollIntervalMin),
                                               Lo("pollIntervalMin"),
                                               Hi("pollIntervalMin"))]
  /\ UNCHANGED <<now, settings, watchlist, state, notified, notifMap, cyc,
                 task, lockQ, nextId, displayed, handler, hist, budget, pool,
                 avatar, call, alarm>>

\* ensureAlarm after its getSettings: await chrome.alarms.clear(ALARM_NAME)
EnsureAlarmClears(r) ==
  /\ upd[r].pc = "armRead"
  /\ alarm' = NoAlarm
  /\ upd' = [upd EXCEPT ![r].pc = "cleared"]
  /\ UNCHANGED <<now, settings, watchlist, state, notified, notifMap, cyc,
                 task, lockQ, nextId, displayed, handler, hist, budget, pool,
                 avatar, call>>

\* ensureAlarm after the clear: chrome.alarms.create with the period it
\* read; the handler then answers with sendResponse
EnsureAlarmCreates(r) ==
  /\ upd[r].pc = "cleared"
  /\ alarm' = upd[r].period
  /\ upd' = [upd EXCEPT ![r].pc = "done"]
  /\ UNCHANGED <<now, settings, watchlist, state, notified, notifMap, cyc,
                 task, lockQ, nextId, displayed, handler, hist, budget, pool,
                 avatar, call>>

\* after onInstalled: the default settings are stored and the alarm is armed
InitAlarm ==
  /\ Quiet
  /\ settings = DEFAULT_SETTINGS
  /\ budget = [cycles |-> 0, ticks |-> 0, events |-> 0, overlaps |-> 0]
  /\ pool = IdlePool
  /\ avatar = NoAvatar
  /\ call = NoCall
  /\ alarm = DEFAULT_SETTINGS.pollIntervalMin
  /\ upd = [r \in Requests |-> IdleUpd]

NextAlarm ==
  \/ \E r \in Requests : \E next \in UpdateInputs : UpdateReceived(r, next)
  \/ \E r \in Requests : UpdateWrites(r)
  \/ \E r \in Requests : EnsureAlarmReads(r)
  \/ \E r \in Requests : EnsureAlarmClears(r)
  \/ \E r \in Requests : EnsureAlarmCreates(r)

SpecAlarm == InitAlarm /\ [][NextAlarm]_vars

\* ---------------------- one cycle after the other, with the clock running

MaxOrderTicks == 1    \* clock advances in the behaviours of SpecOrder

\* Poll cycles over two channels, one after the other, while time passes:
\* the tasks of a cycle finish in either order and at different times.
InitOrder ==
  /\ now = StartTime
  /\ settings \in [cooldownMin : {0, 1}, notifyIfAlreadyLive : BOOLEAN]
  /\ watchlist = <<"chzzk:c1", "soop:s1">>
  /\ state = [k \in Channels |-> NoState]
  /\ notified = [k \in Channels |-> NoRec]
  /\ notifMap = {}
  /\ cyc = [p \in Triggers |-> IdleCycle]
  /\ task = [p \in Triggers |-> [k \in Channels |-> IdleTask]]
  /\ lockQ = <<>>
  /\ nextId = 1
  /\ displayed = {}
  /\ handler = [h \in HandleIds |-> IdleHandler]
  /\ hist = [k \in Channels |-> <<>>]
  /\ budget = [cycles |-> MaxRaiseCycles, ticks |-> MaxOrderTicks,
               events |-> 0, overlaps |-> 0]
  /\ pool = IdlePool
  /\ avatar = NoAvatar
  /\ call = NoCall
  /\ alarm = NoAlarm
  /\ upd = [r \in Requests |-> IdleUpd]

NextOrder ==
  \/ Tick
  \/ \E p \in Triggers : StartCycle(p)
  \/ \E p \in Triggers : LoadDispatch(p)
  \/ \E p \in Triggers, k \in Channels, r \in FetchResults : FetchDone(p, k, r)
  \/ \E p \in Triggers, k \in Channels, icon \in {AvatarIcon, DefaultIcon} :
        AvatarDone(p, k, icon)
  \/ \E p \in Triggers, k \in Channels : CreateThrows(p, k)
  \/ \E p \in Triggers, k \in Channels, ok \in BOOLEAN : CreateDone(p, k, ok)
  \/ \E i \in 1..Len(lockQ) : LockStep(i)

SpecOrder == InitOrder /\ [][NextOrder]_vars

\* --------------------- withTimeout(fetchStatus(item), ms) (code, one call)

Pending == [kind |-> "pending"]
Err(msg) == [kind |-> "error", msg |-> msg]
TimeoutErr == Err("timeout")
NoErr == Err("")

Platforms == {"chzzk", "soop", "other"}
ChzzkUrls == <<"v2", "v1">>
Titles == {"", "T1"}

\* what one endpoint of CHZZK can answer: fetch rejects, a status that is
\* not ok, a body that is not JSON, JSON without content (null, {}, an
\* error envelope), or content with a status and a liveTitle
ChzzkReplies ==
  {[kind |-> "netError"], [kind |-> "http", code |-> "404"],
   [kind |-> "http", code |-> "500"], [kind |-> "notJson"],
   [kind |-> "noContent"]}
  \cup [kind : {"content"}, status : {"OPEN", "open", "CLOSE"},
        liveTitle : Titles]

\* what the SOOP endpoint can answer: as above, with CHANNEL in place of
\* content, RESULT, BNO and TITLE
SoopReplies ==
  {[kind |-> "netError"], [kind |-> "http", code |-> "500"],
   [kind |-> "notJson"], [kind |-> "noChannel"]}
  \cup [kind : {"channel"}, RESULT : {0, 1}, BNO : {"", "B1"},
        TITLE : {"T1"}]

\* state[item.key] as the cycle loaded it: absent, or live with a signature
FetchPrevs ==
  {NoState, [present |-> TRUE, lastIsLive |-> TRUE, lastSig |-> "OPEN:T1",
             updatedAt |-> StartTime]}

ToUpperCase(s) == IF s = "open" THEN "OPEN" ELSE s

\* what raises in the code of either adapter: fetch itself, the check of
\* res.ok, res.json()
ResponseError(reply) ==
  CASE reply.kind = "netError" -> Err("Failed to fetch")
    [] reply.kind = "http" -> Err("HTTP " \o reply.code)
    [] reply.kind = "notJson" -> Err("Unexpected token")
    [] OTHER -> NoErr

\* the body of the try block of fetchChzzk for one url
ChzzkTry(reply) ==
  IF ResponseError(reply) # NoErr THEN ResponseError(reply)
  ELSE LET status == ToUpperCase(IF reply.kind = "content"
                                 THEN reply.status ELSE "")
           isLive == status = "OPEN"
           title == IF reply.kind = "content" THEN reply.liveTitle ELSE ""
       IN [kind |-> "value", isLive |-> isLive, title |-> title,
           signature |-> IF isLive THEN "OPEN:" \o title ELSE "OFF"]

\* fetchSoop once its fetch has settled
SoopTry(reply) ==
  IF ResponseError(reply) # NoErr THEN ResponseError(reply)
  ELSE LET isLive == reply.kind = "channel" /\ reply.RESULT = 1
           title == IF reply.kind = "channel" THEN reply.TITLE ELSE ""
           bno == IF reply.kind = "channel" THEN reply.BNO ELSE ""
       IN [kind |-> "value", isLive |-> isLive, title |-> title,
           signature |-> IF isLive
                         THEN "LIVE:" \o (IF bno # "" THEN bno ELSE title)
                         ELSE "OFF"]

\* a promise that the last call of resolve / reject settles
PromiseSettleOverwrites(out, v) == v

\* resolve / reject of the promise withTimeout returns: a promise settles
\* with the first of them, later calls change nothing
PromiseSettle(out, v) == IF out.kind = "pending" THEN v ELSE out

\* clearTimeout(t): a timer that fired stays fired
ClearTimeout(timer) == IF timer = "armed" THEN "cleared" ELSE timer

\* a catch block that keeps the first error it saw
KeepFirstErr(lastErr, e) == IF lastErr = NoErr THEN e ELSE lastErr

\* catch (e) { lastErr = e; }
KeepErr(lastErr, e) == e

\* throw lastErr || new Error("CHZZK fetch failed")
Throws(lastErr) ==
  IF lastErr = NoErr THEN Err("CHZZK fetch failed") ELSE lastErr

\* The operation settles with op: its then / catch callback runs
\* clearTimeout(t) and resolve(v) or reject(e).
OperationSettles(op, tried, lastErr) ==
  call' = [call EXCEPT !.pc = IF op.kind = "value" THEN "returned" ELSE "raised",
                       !.op = op, !.tried = tried, !.lastErr = lastErr,
                       !.timer = ClearTimeout(@),
                       !.out = PromiseSettle(@, op),
                       !.settles = @ + 1]

\* safeFetchStatus calls withTimeout(fetchStatus(item), requestTimeoutMs):
\* fetchStatus issues the first fetch of the adapter, or throws for a
\* platform it does not know; setTimeout arms the timer.
WithTimeoutCalled(platform, prev) ==
  /\ call.pc = "none"
  /\ LET known == platform \in {"chzzk", "soop"}
         op == IF known THEN Pending ELSE Err("unknown platform")
     IN call' = [fn |-> "withTimeout", platform |-> platform,
                 pc |-> IF known THEN "fetching" ELSE "raised",
                 i |-> 1, tried |-> <<>>, lastErr |-> NoErr,
                 op |-> op,
                 timer |-> IF known THEN "armed" ELSE "cleared",
                 out |-> op,
                 settles |-> IF known THEN 0 ELSE 1,
                 prev |-> prev, returned |-> FALSE, status |-> NoStatus]
  /\ UNCHANGED <<now, settings, watchlist, state, notified, notifMap, cyc,
                 task, lockQ, nextId, displayed, handler, hist, budget, pool,
                 avatar, alarm, upd>>

\* fetchChzzk: the fetch of urls[i] settled (with its body read).  A
\* result returns from the loop; an error is kept as lastErr and the loop
\* goes to the next url, or throws after the last.
ChzzkAnswers(reply) ==
  /\ call.fn = "withTimeout" /\ call.platform = "chzzk"
  /\ call.pc = "fetching"
  /\ LET a == ChzzkTry(reply)
         tried == Append(call.tried, [url |-> ChzzkUrls[call.i], reply |-> reply])
     IN IF a.kind = "value"
        THEN OperationSettles(a, tried, call.lastErr)
        ELSE IF call.i < Len(ChzzkUrls)
        THEN call' = [call EXCEPT !.i = @ + 1, !.tried = tried,
                                  !.lastErr = KeepErr(@, a)]
        ELSE OperationSettles(Throws(KeepErr(call.lastErr, a)), tried,
                              KeepErr(call.lastErr, a))
  /\ UNCHANGED <<now, settings, watchlist, state, notified, notifMap, cyc,
                 task, lockQ, nextId, displayed, handler, hist, budget, pool,
                 avatar, alarm, upd>>

\* fetchSoop: its one fetch settled (with its body read)
SoopAnswers(reply) ==
  /\ call.fn = "withTimeout" /\ call.platform = "soop"
  /\ call.pc = "fetching"
  /\ OperationSettles(SoopTry(reply),
                      Append(call.tried, [url |-> "soop", reply |-> reply]),
                      call.lastErr)
  /\ UNCHANGED <<now, settings, watchlist, state, notified, notifMap, cyc,
                 task, lockQ, nextId, displayed, handler, hist, budget, pool,
                 avatar, alarm, upd>>

\* the timer set by withTimeout fires: reject(new Error("timeout")).  The
\* operation is not cancelled and goes on.
TimerFires ==
  /\ call.fn = "withTimeout"
  /\ call.timer = "armed"
  /\ call' = [call EXCEPT !.timer = "fired",
                          !.out = PromiseSettle(@, TimeoutErr),
                          !.settles = @ + 1]
  /\ UNCHANGED <<now, settings, watchlist, state, notified, notifMap, cyc,
                 task, lockQ, nextId, displayed, handler, hist, budget, pool,
                 avatar, alarm, upd>>

\* what withTimeout delivered, as safeFetchStatus tells it apart: the value
\* after its await, or the catch block
Delivered(out) ==
  IF out.kind = "value"
  THEN [ok |-> TRUE, isLive |-> out.isLive, signature |-> out.signature]
  ELSE FetchFail

\* the await in safeFetchStatus resumes with what withTimeout settled
\* with, and safeFetchStatus returns the status the cycle goes on with
SafeFetchStatusReturns ==
  /\ call.fn = "withTimeout"
  /\ call.out.kind # "pending"
  /\ ~call.returned
  /\ call' = [call EXCEPT !.returned = TRUE,
                          !.status = safeFetchStatus(Delivered(call.out),
                                                     call.prev)]
  /\ UNCHANGED <<now, settings, watchlist, state, notified, notifMap, cyc,
                 task, lockQ, nextId, displayed, handler, hist, budget, pool,
                 avatar, alarm, upd>>

InitFetch ==
  /\ Quiet
  /\ settings = DEFAULT_SETTINGS
  /\ budget = [cycles |-> 0, ticks |-> 0, events |-> 0, overlaps |-> 0]
  /\ pool = IdlePool
  /\ avatar = NoAvatar
  /\ call = NoCall
  /\ alarm = NoAlarm
  /\ upd = [r \in Requests |-> IdleUpd]

NextFetch ==
  \/ \E platform \in Platforms : \E prev \in FetchPrevs :
       WithTimeoutCalled(platform, prev)
  \/ \E reply \in ChzzkReplies : ChzzkAnswers(reply)
  \/ \E reply \in SoopReplies : SoopAnswers(reply)
  \/ TimerFires
  \/ SafeFetchStatusReturns

SpecFetch == InitFetch /\ [][NextFetch]_vars

\* ================================================================ claims

SigA == "OPEN:A"

ObsOff(e)     == e.obs.ok /\ ~e.obs.isLive
ObsLive(e, s) == e.obs.ok /\ e.obs.isLive /\ e.obs.signature = s
ObsFail(e)    == ~e.obs.ok

\* polls i..j of the channel were made by runs that overlapped no other run
Consecutive(h, i, j) == \A n \in i..j : ~h[n].overlapped

\* the polls of the channel so far are offline, live(A), live(A), live(A)
EdgeThenSteady(h) ==
  /\ Len(h) >= 4
  /\ Consecutive(h, 1, 4)
  /\ ObsOff(h[1])
  /\ \A n \in 2..4 : ObsLive(h[n], SigA)

\* C1: a channel polled by consecutive cycles with the status sequence
\* offline, live(A), live(A), live(A) gets exactly one notification, on the
\* offline->live cycle, whatever the cooldown (0 or longer than the run).
C1_OneNotificationPerEdge ==
  \A k \in Channels :
    EdgeThenSteady(hist[k]) =>
      /\ hist[k][2].didNotify /\ hist[k][2].attempts >= 1
      /\ \A n \in {1, 3, 4} : ~hist[k][n].didNotify /\ hist[k][n].attempts = 0

\* the sequence ran under a cooldown longer than all the time elapsed, and
\* the one notification was shown
C1_Witness ==
  \E k \in Channels :
    /\ EdgeThenSteady(hist[k])
    /\ \A n \in 1..4 : hist[k][n].cooldownMin * MsPerMin > now - StartTime
    /\ now > StartTime
    /\ hist[k][2].created

\* polls i, i+1, i+2 of the channel: live(A) notified, offline, live(A)
LiveOffLive(h, i) ==
  /\ i + 2 <= Len(h)
  /\ Consecutive(h, i, i + 2)
  /\ ObsLive(h[i], SigA) /\ h[i].didNotify
  /\ ObsOff(h[i + 1])
  /\ ObsLive(h[i + 2], SigA)

\* C2 as claimed: live(A), offline, live(A) gives a second notification
\* whatever the cooldown.
C2_SecondNotificationAlways ==
  \A k \in Channels : \A i \in 1..Len(hist[k]) :
    LiveOffLive(hist[k], i) => hist[k][i + 2].didNotify

\* C2 amended: the second offline->live edge with the same signature
\* notifies exactly when the cooldown is 0 or has run out since the first
\* notification was recorded.
C2_SecondNotificationAfterCooldown ==
  \A k \in Channels : \A i \in 1..Len(hist[k]) :
    LiveOffLive(hist[k], i) =>
      LET h == hist[k]
          cooldownMs == h[i + 2].cooldownMin * MsPerMin
      IN h[i + 2].didNotify <=>
           (cooldownMs = 0 \/ h[i + 2].gateAt - h[i].recordedAt >= cooldownMs)

\* the second edge arrived within the cooldown and was suppressed
C2_Witness ==
  \E k \in Channels : \E i \in 1..Len(hist[k]) :
    /\ LiveOffLive(hist[k], i)
    /\ ~hist[k][i + 2].didNotify
    /\ hist[k][i + 2].gateAt > hist[k][i].recordedAt

\* C3 as claimed: a NotificationRecord exists only for a channel for which
\* some cycle actually showed a notification.
C3_RecordOnlyWhenShown ==
  \A k \in Channels :
    notified[k].present => \E i \in 1..Len(hist[k]) : hist[k][i].created

\* C4 as claimed: after a cycle whose create attempts all failed, the next
\* cycle that finds the channel live with the same signature tries again.
C4_FailedNotificationRetried ==
  \A k \in Channels : \A i \in 1..Len(hist[k]) :
    LET h == hist[k]
    IN (/\ i + 1 <= Len(h)
        /\ Consecutive(h, i, i + 1)
        /\ ObsLive(h[i], SigA) /\ h[i].attempts >= 1 /\ ~h[i].created
        /\ ObsLive(h[i + 1], SigA))
       => h[i + 1].attempts >= 1

\* C5 as claimed: no two runs of pollAll are between their load of state /
\* notified and their final storage.set at the same time.
C5_AtMostOneRun ==
  ~(cyc["alarm"].pc = "running" /\ cyc["manual"].pc = "running")

\* C6: a cycle whose status fetch failed writes the lastIsLive it loaded
\* (an absent state reads as not live) and issues no notification.
C6_FailureKeepsPrevious ==
  \A k \in Channels : \A i \in 1..Len(hist[k]) :
    ObsFail(hist[k][i]) =>
      /\ hist[k][i].lastIsLive = hist[k][i].prevLive
      /\ ~hist[k][i].didNotify
      /\ hist[k][i].attempts = 0

\* a fetch failed for a channel last seen live, and the state stayed live
C6_Witness ==
  \E k \in Channels : \E i \in 1..Len(hist[k]) :
    /\ ObsFail(hist[k][i])
    /\ hist[k][i].prevLive
    /\ state[k].lastIsLive

\* C7: first poll of a channel without ChannelState reports live: no
\* notification with notifyIfAlreadyLive = false, one with it true.
C7_FirstSeenLive ==
  \A k \in Channels : \A i \in 1..Len(hist[k]) :
    LET e == hist[k][i]
    IN (~e.prevPresent /\ e.obs.ok /\ e.obs.isLive) =>
         IF e.notifyIfAlreadyLive
         THEN e.didNotify /\ e.attempts \in {1, 2}
         ELSE ~e.didNotify /\ e.attempts = 0

\* a first-seen live channel was notified and the notification shown
C7_Witness ==
  \E k \in Channels : \E i \in 1..Len(hist[k]) :
    LET e == hist[k][i]
    IN ~e.prevPresent /\ e.obs.ok /\ e.obs.isLive /\ e.notifyIfAlreadyLive
       /\ e.didNotify /\ e.created

\* C8: while every poll of a channel has reported offline, no notification
\* was issued for it and it has no NotificationRecord, in storage or in a
\* run's copy.
C8_OfflineNeverNotifies ==
  \A k \in Channels :
    (\A i \in 1..Len(hist[k]) : ObsOff(hist[k][i])) =>
      /\ \A i \in 1..Len(hist[k]) :
           ~hist[k][i].didNotify /\ hist[k][i].attempts = 0
      /\ ~notified[k].present

\* three offline polls in a row
C8_Witness ==
  \E k \in Channels :
    /\ Len(hist[k]) >= 3
    /\ \A i \in 1..Len(hist[k]) : ObsOff(hist[k][i])
    /\ state[k].present /\ ~state[k].lastIsLive

\* ids for which notify called upsertNotifMap (every id the host showed)
UpsertCalled == displayed \cup {h \in HandleIds : handler[h].closed # "none"}

\* ids for which a handler called deleteNotifMapEntry
DeleteCalled ==
  {h \in HandleIds : handler[h].clicked \in {"deleting", "done"}
                     \/ handler[h].closed \in {"deleting", "done"}}

MapIds == {e.id : e \in notifMap}

\* C9: once every chained notifMap operation has run, the map holds exactly
\* the ids that were upserted and not deleted: no update is lost.
C9_NoLostUpdate ==
  lockQ = <<>> => MapIds = UpsertCalled \ DeleteCalled

\* two notifications were recorded, one of them was deleted again, and the
\* other is still in the map
C9_Witness ==
  /\ lockQ = <<>>
  /\ Cardinality(UpsertCalled) >= 2
  /\ DeleteCalled # {}
  /\ MapIds # {}

\* C10: once the click or the dismiss handler of an id has completed and
\* no operation on that id is pending, notifMap has no entry for the id.
C10_EntryTerminal ==
  \A h \in HandleIds :
    (/\ handler[h].clicked = "done" \/ handler[h].closed = "done"
     /\ \A i \in 1..Len(lockQ) : lockQ[i].id # h)
    => h \notin MapIds

\* a notification whose entry was recorded has been clicked and dismissed,
\* and both handlers have completed
C10_Witness ==
  \E h \in HandleIds :
    /\ handler[h].clicked = "done"
    /\ handler[h].closed = "done"
    /\ \A i \in 1..Len(lockQ) : lockQ[i].id # h

\* indexes of the items whose fn has been called and has not settled
PoolInFlight == {i \in 1..Len(pool.st) : pool.st[i] = "running"}

\* C11: at no time are more than limit invocations of fn in flight, for
\* any number of items and any order in which the tasks settle.
C11_AtMostLimitInFlight ==
  Cardinality(PoolInFlight) <= pool.limit

\* limit tasks are in flight, tasks settled before them, items still wait
C11_Witness ==
  /\ Cardinality(PoolInFlight) = pool.limit
  /\ pool.limit >= 2
  /\ pool.settled >= 1
  /\ \E i \in 1..Len(pool.st) : pool.st[i] = "waiting"

\* C12: mapPool returns one result per item, in input order: results[i] is
\* what fn(items[i]) returned, in whatever order the tasks settled.
C12_ResultsInInputOrder ==
  pool.pc = "returned" =>
    /\ Len(pool.results) = Len(pool.items)
    /\ \A i \in 1..Len(pool.items) :
         pool.st[i] = "ok" => pool.results[i] = Fn(pool.items[i])

\* a pool of different items returned after the task of the first item
\* had settled last
C12_Witness ==
  /\ pool.pc = "returned"
  /\ Len(pool.items) >= 3
  /\ pool.order[Len(pool.order)] = 1
  /\ \A i \in 1..Len(pool.items) : pool.st[i] = "ok"
  /\ \E i, j \in 1..Len(pool.items) : pool.items[i] # pool.items[j]

\* C13: when fn raises for an item, the result of that item is null, the
\* pool is not aborted (it returns only once no item is left unprocessed),
\* and every other item has its own result.
C13_RaiseIsNullOthersProcessed ==
  pool.pc = "returned" =>
    \A i \in 1..Len(pool.items) :
      /\ pool.st[i] \in {"ok", "raised"}
      /\ pool.st[i] = "raised" => pool.results[i] = Null
      /\ pool.st[i] = "ok" => pool.results[i] \notin {Null, Unset}

\* a pool returned in which one task raised while items were still waiting
\* and the items after it returned
C13_Witness ==
  /\ pool.pc = "returned"
  /\ Len(pool.items) > pool.limit
  /\ pool.st[1] = "raised" /\ pool.results[1] = Null
  /\ \A i \in 2..Len(pool.items) : pool.st[i] = "ok"

\* the channels whose task returned in the i-th run (the runs here follow
\* one another and each polls every channel, so the i-th record of every
\* channel is of the same run)
Returned(i) == {j \in Channels : i <= Len(hist[j]) /\ ~hist[j][i].failed}

\* C14 as claimed: a run in which the task of a channel raised leaves the
\* channel out of checked, liveNow and notifiedCount.
C14_FailedExcludedFromAllCounts ==
  \A k \in Channels : \A i \in 1..Len(hist[k]) :
    hist[k][i].failed =>
      LET sum == hist[k][i].summary
      IN /\ sum.checked = Cardinality(Returned(i))
         /\ sum.liveNow =
              Cardinality({j \in Returned(i) : hist[j][i].lastIsLive})
         /\ sum.notifiedCount =
              Cardinality({j \in Returned(i) : hist[j][i].didNotify})

\* C14 amended: the run still ends with its storage.set (the other
\* channels' new state is in storage) and returns a summary in which
\* liveNow and notifiedCount leave the failed channel out, while checked is
\* the length of the watchlist and counts it.
C14_FailedExcludedFromLiveAndNotified ==
  \A k \in Channels : \A i \in 1..Len(hist[k]) :
    hist[k][i].failed =>
      LET sum == hist[k][i].summary
      IN /\ sum.checked = Len(watchlist)
         /\ sum.liveNow =
              Cardinality({j \in Returned(i) : hist[j][i].lastIsLive})
         /\ sum.notifiedCount =
              Cardinality({j \in Returned(i) : hist[j][i].didNotify})
         /\ \A j \in Returned(i) :
              (Len(hist[j]) = i /\ \A p \in Triggers : cyc[p].pc # "running")
                => /\ state[j].present
                   /\ state[j].lastIsLive = hist[j][i].lastIsLive
                   /\ state[j].lastSig = hist[j][i].lastSig

\* a run in which the task of one live channel raised and the other live
\* channel was notified has ended: the summary says 2 checked, 1 live, 1
\* notified
C14_Witness ==
  \E k \in Channels : \E i \in 1..Len(hist[k]) :
    /\ hist[k][i].failed
    /\ hist[k][i].summary = [checked |-> 2, liveNow |-> 1, notifiedCount |-> 1]
    /\ \E j \in Returned(i) : hist[j][i].created /\ state[j].lastIsLive

\* C15: canNotify returns true when the key has no record; true when the
\* recorded signature differs from sig; and with equal signatures true
\* exactly when now - lastNotifiedAt >= cooldownMin * 60000, a cooldownMin
\* of 0 always giving true.
C15_GateDecision ==
  call.fn = "canNotify" =>
    call.out =
      IF ~call.rec.present THEN TRUE
      ELSE IF call.rec.lastNotifiedSig # call.sig THEN TRUE
      ELSE IF call.cooldownMin = 0 THEN TRUE
      ELSE call.at - call.rec.lastNotifiedAt >= call.cooldownMin * 60000

\* the same signature asks again one millisecond before the cooldown ends
\* and is refused
C15_Witness ==
  /\ call.fn = "canNotify"
  /\ call.rec.present /\ call.rec.lastNotifiedSig = call.sig
  /\ call.cooldownMin = 1
  /\ call.at - call.rec.lastNotifiedAt = 59999
  /\ ~call.out

\* C16: computeTransition says shouldNotify exactly when the current
\* status is live and either a previous state exists with lastIsLive =
\* false, or none exists and notifyIfAlreadyLive is true; never for
\* live->live (changed signature included), offline->offline,
\* live->offline or first-seen offline.
C16_TransitionDecision ==
  call.fn = "computeTransition" =>
    call.out =
      (/\ call.status.isLive
       /\ \/ call.prev.present /\ ~call.prev.lastIsLive
          \/ ~call.prev.present /\ call.notifyIfAlreadyLive)

\* a live channel is polled live with another signature: no notification
C16_Witness ==
  /\ call.fn = "computeTransition"
  /\ call.prev.present /\ call.prev.lastIsLive /\ call.status.isLive
  /\ call.prev.lastSig # call.status.signature
  /\ ~call.out

\* C17: a notify call that returned made one or two create attempts; two
\* exactly when the first failed and the requested icon was not the
\* default one, the second then with the default icon; and notifMap has
\* the entry id -> url exactly when an attempt succeeded.
C17_NotifyAttempts ==
  /\ \A p \in Triggers, k \in Channels :
       /\ task[p][k].attempts <= 2
       /\ task[p][k].pc = "create2" =>
            task[p][k].iconUrl # DefaultIcon /\ task[p][k].lastIcon = DefaultIcon
  /\ \A k \in Channels : \A i \in 1..Len(hist[k]) :
       LET e == hist[k][i]
       IN (e.attempts >= 1 /\ ~e.failed) =>
            /\ e.attempts \in {1, 2}
            /\ e.attempts = 2 => e.iconUrl # DefaultIcon /\ e.lastIcon = DefaultIcon
            /\ e.iconUrl = DefaultIcon => e.attempts = 1
            /\ (~e.created /\ e.iconUrl # DefaultIcon) => e.attempts = 2
            /\ e.created <=> [id |-> e.id, url |-> k] \in notifMap
            /\ ~e.created => e.id \notin MapIds

\* one notify succeeded on its retry with the default icon and its entry
\* is in notifMap; another failed with the default icon, without retry and
\* without entry
C17_Witness ==
  \E k, j \in Channels : \E i \in 1..Len(hist[k]), n \in 1..Len(hist[j]) :
    /\ hist[k][i].attempts = 2 /\ hist[k][i].created
    /\ hist[k][i].id \in MapIds
    /\ hist[j][n].attempts = 1 /\ ~hist[j][n].created /\ ~hist[j][n].failed
    /\ hist[j][n].iconUrl = DefaultIcon

\* the last call of getAvatarIconUrl made no request at all
NoFetch == ~call.lookedUp /\ ~call.downloaded

\* the resolved icon the call found cached was fetched d ms before it
IconAge(d) ==
  /\ call.fn = "getAvatarIconUrl"
  /\ call.before.dataUrl # ""
  /\ call.at - call.before.dataFetchedAt = d

\* the remote URL the call found cached was fetched d ms before it
UrlAge(d) ==
  /\ call.fn = "getAvatarIconUrl"
  /\ call.before.url # ""
  /\ call.at - call.before.fetchedAt = d

\* C18 as claimed: in either sub-cache an entry fetched at T is reused
\* without any request at T + TTL - 1 and fetched again at T + TTL + 1.
C18_BothCachesExpireAlike ==
  /\ IconAge(AvatarCacheTtlMs - 1) => NoFetch /\ call.result = call.before.dataUrl
  /\ IconAge(AvatarCacheTtlMs + 1) => ~NoFetch
  /\ UrlAge(AvatarCacheTtlMs - 1) => ~call.lookedUp
  /\ UrlAge(AvatarCacheTtlMs + 1) => call.lookedUp

\* C18 amended: a resolved icon fetched at T is returned without any
\* request at T + TTL - 1 and is not served from the cache at T + TTL + 1
\* (a lookup or a download is made); a remote URL fetched at T is not
\* looked up again at T + TTL - 1, and is looked up again at T + TTL + 1
\* when the call gets that far, that is unless a resolved icon younger
\* than the TTL answers the call.
C18_UrlCacheBehindIconCache ==
  /\ IconAge(AvatarCacheTtlMs - 1) => NoFetch /\ call.result = call.before.dataUrl
  /\ IconAge(AvatarCacheTtlMs + 1) => ~NoFetch
  /\ UrlAge(AvatarCacheTtlMs - 1) => ~call.lookedUp
  /\ UrlAge(AvatarCacheTtlMs + 1) =>
       IF call.before.dataUrl # ""
          /\ call.at - call.before.dataFetchedAt < AvatarCacheTtlMs
       THEN NoFetch /\ call.result = call.before.dataUrl
       ELSE call.lookedUp

\* the third call finds both the URL and the icon fetched TTL + 1 ms ago,
\* looks the URL up and downloads the image again
C18_Witness ==
  /\ IconAge(AvatarCacheTtlMs + 1)
  /\ UrlAge(AvatarCacheTtlMs + 1)
  /\ call.lookedUp /\ call.downloaded
  /\ call.result # Null
  /\ avatar.calls = 3
  /\ avatar.cache.dataFetchedAt = now

\* some step of the last call of getAvatarIconUrl failed
AvatarStepFailed ==
  \/ call.lookedUp /\ call.lookup = "httpError"
  \/ call.downloaded /\ call.download # "ok"

\* C19: getAvatarIconUrl never raises; when the lookup or the download
\* fails (HTTP error, non-image content type, oversized image, timeout)
\* it returns null and notify is called with the default icon.
C19_AvatarNeverRaises ==
  call.fn = "getAvatarIconUrl" =>
    /\ ~call.raised
    /\ AvatarStepFailed => call.result = Null /\ call.iconUrl = DefaultIcon

\* the download of a freshly looked-up URL timed out, and the URL stays
\* cached
C19_Witness ==
  /\ call.fn = "getAvatarIconUrl"
  /\ call.lookedUp /\ call.downloaded /\ call.download = "timeout"
  /\ call.result = Null /\ call.iconUrl = DefaultIcon
  /\ avatar.cache.url # "" /\ avatar.cache.dataUrl = ""

\* the value given for a numeric setting lies above max / below min
Above(x, max) ==
  \/ x.kind = "int" /\ x.v > max
  \/ x.kind = "frac" /\ x.v >= max
  \/ x.kind = "big" /\ ~x.neg
Below(x, min) ==
  \/ x.kind = "int" /\ x.v < min
  \/ x.kind = "frac" /\ x.v < min
  \/ x.kind = "big" /\ x.neg

\* the persisted numeric settings are within their ranges
SettingsInRange == \A f \in NumFields : settings[f] \in Lo(f)..Hi(f)

\* C20 as claimed: after a setSettings call the persisted numeric settings
\* are within [1,60], [0,1440] and [2000,30000], and a value given outside
\* the range of its setting is persisted as the nearest bound.
C20_ClampedToNearestBound ==
  (call.fn = "setSettings" /\ call.pc = "set") =>
    /\ SettingsInRange
    /\ \A f \in NumFields :
         /\ Above(call.next[f], Hi(f)) => settings[f] = Hi(f)
         /\ Below(call.next[f], Lo(f)) => settings[f] = Lo(f)

\* C21 as claimed: a poll whose status fetch failed leaves the updatedAt
\* of the channel's persisted state as the run loaded it.
C21_FailedPollKeepsUpdatedAt ==
  \A k \in Channels : \A i \in 1..Len(hist[k]) :
    (ObsFail(hist[k][i]) /\ hist[k][i].prevPresent) =>
      hist[k][i].updatedAt = hist[k][i].prevUpdatedAt

FailedResponse(reply) ==
  reply.kind \in {"netError", "http", "notJson", "noContent", "noChannel"}

\* C23 as claimed: no result of a status resolver that says offline
\* (isLive = false, signature OFF) was made from a failed response.
C23_FailedResponseNeverOffline ==
  call.fn = "withTimeout" =>
    \A j \in 1..Len(call.tried) :
      FailedResponse(call.tried[j].reply) =>
        ~(/\ j = Len(call.tried)
          /\ call.op.kind = "value"
          /\ ~call.op.isLive
          /\ call.op.signature = "OFF")

\* the attempt on an endpoint failed: it raised
EndpointFailed(reply) == ResponseError(reply) # NoErr

\* C24: fetchChzzk contacts v2, then v1, each only after every endpoint
\* before it failed; it returns the result of the first endpoint that
\* succeeds and contacts none after it; when both failed it raises the
\* error of v1, the last one tried.
C24_InOrderFirstSuccessLastError ==
  (call.fn = "withTimeout" /\ call.platform = "chzzk") =>
    LET n == Len(call.tried)
        AllFailed == \A j \in 1..n : EndpointFailed(call.tried[j].reply)
    IN /\ n <= Len(ChzzkUrls)
       /\ \A j \in 1..n : call.tried[j].url = ChzzkUrls[j]
       /\ \A j \in 1..n : j < n => EndpointFailed(call.tried[j].reply)
       /\ call.pc = "fetching" => (AllFailed /\ n < Len(ChzzkUrls))
       /\ call.pc = "returned" =>
            /\ ~EndpointFailed(call.tried[n].reply)
            /\ call.op = ChzzkTry(call.tried[n].reply)
       /\ call.pc = "raised" =>
            /\ AllFailed /\ n = Len(ChzzkUrls)
            /\ call.op = ResponseError(call.tried[n].reply)

\* C24 witness: v2 answered 404, v1 could not be reached, fetchChzzk raised
C24_Witness ==
  /\ call.fn = "withTimeout" /\ call.platform = "chzzk"
  /\ call.pc = "raised"
  /\ Len(call.tried) = 2
  /\ call.tried[1].reply = [kind |-> "http", code |-> "404"]
  /\ call.tried[2].reply.kind = "netError"
  /\ call.op = Err("Failed to fetch")

\* C25: withTimeout settles once: with what the operation settled with
\* when that came before the timer, with the timeout error when the timer
\* came first, and what the operation delivers after that changes nothing.
C25_SettlesOnceFirstWins ==
  call.fn = "withTimeout" =>
    /\ call.timer = "armed" => (call.out = Pending /\ call.op = Pending)
    /\ call.timer = "cleared" => (call.op # Pending /\ call.out = call.op)
    /\ call.timer = "fired" => call.out = TimeoutErr

\* C25 witness: the timer fired, the operation returned a status later
C25_Witness ==
  /\ call.fn = "withTimeout"
  /\ call.timer = "fired"
  /\ call.op.kind = "value"
  /\ call.settles = 2
  /\ call.out = TimeoutErr

\* C26: in every cycle, what is persisted for a channel and whether a
\* notification was issued for it are what the channel's own previous
\* state, own notification record, own status and own clock readings
\* give, whichever of the tasks of the cycle finished first.
C26_OwnInputsDecide ==
  \A k \in Channels : \A i \in 1..Len(hist[k]) :
    LET e == hist[k][i]
        st == [cooldownMin |-> e.cooldownMin,
               notifyIfAlreadyLive |-> e.notifyIfAlreadyLive]
        own == [j \in Channels |-> IF j = k THEN e.prevRec ELSE NoRec]
        status == safeFetchStatus(e.obs, e.prev)
        notifies == /\ computeTransition(e.prev, status, st)
                    /\ canNotify(k, status.signature, own, st, e.gateAt)
    IN IF e.failed
       THEN /\ e.lastIsLive = e.prev.lastIsLive
            /\ e.lastSig = e.prev.lastSig
            /\ e.updatedAt = e.prev.updatedAt
            /\ e.rec = e.prevRec
       ELSE /\ e.didNotify = notifies
            /\ e.lastIsLive = status.isLive
            /\ e.lastSig = status.signature
            /\ e.updatedAt = e.finishedAt
            /\ e.rec = IF notifies
                       THEN [present |-> TRUE,
                             lastNotifiedSig |-> status.signature,
                             lastNotifiedAt |-> e.finishedAt]
                       ELSE e.prevRec

\* C26 witness: a cycle in which the task of the second channel of the
\* watchlist finished a minute before the task of the first, one of them
\* with a notification and the other without.
C26_Witness ==
  \E i \in 1..Len(hist["chzzk:c1"]) :
    /\ i <= Len(hist["soop:s1"])
    /\ hist["soop:s1"][i].finishedAt < hist["chzzk:c1"][i].finishedAt
    /\ hist["soop:s1"][i].didNotify
    /\ ~hist["chzzk:c1"][i].didNotify
    /\ ObsOff(hist["chzzk:c1"][i])
    /\ state["chzzk:c1"].lastSig = "OFF"
    /\ state["soop:s1"].lastIsLive

====
